---- MODULE Spec2Model ----
(***************************************************************************)
(* Model of support_system.py: the triage agent, the three specialist      *)
(* agents (billing, technical, general) and the SupportSystem.start loop.  *)
(*                                                                         *)
(* Texts.  A Python str is modelled as a sequence of lexemes.  A lexeme is *)
(* a whitespace character (" " or "\n"), the colon ":", or a maximal run   *)
(* of other characters (a word).  The fixed strings of the program (tool   *)
(* results, refusals, f-string fragments) are kept whole as one lexeme.    *)
(* strip(), lower(), startswith("TOOL:") and split(":") are computed on    *)
(* this representation as Python computes them on characters.              *)
(*                                                                         *)
(* Classifier.  genai ... generate_content(prompt) is an opaque call: each *)
(* call returns any text of ClassifierTexts or raises any error of         *)
(* ClassifierErrors.                                                       *)
(***************************************************************************)
EXTENDS Integers, Sequences, FiniteSets, TLC

VARIABLES
    pc,             \* position of start(): "prompt" (line 325), "continue" (line 354), "done"
    current_agent,  \* SupportSystem.current_agent
    context,        \* the UserContext shared by all agents
    turns,          \* number of input() calls made so far
    prevState,      \* the session state before the last step
    lastInput,      \* the raw line the last input() returned
    lastAgent,      \* the agent whose process_query ran in the last step, or "none"
    lastPrompt,     \* the variable parts of the prompt of that call
    lastOutcome,    \* what the classifier call of the last step did
    lastResult,     \* what process_query returned in the last step
    invoked,        \* the tool functions executed in the last step, in order
    printed,        \* the lines printed in the last step, in order
    nCalls,         \* number of classifier calls made so far
    nRouted,        \* number of queries passed to TriageAgent.process_query so far
    summary         \* the session summaries printed so far, in order

vars == <<pc, current_agent, context, turns, prevState, lastInput, lastAgent,
          lastPrompt, lastOutcome, lastResult, invoked, printed, nCalls,
          nRouted, summary>>

-----------------------------------------------------------------------------
(* Bounds *)

\* The session loop is unbounded; the model reads at most MaxTurns lines.
MaxTurns == 5

\* The handler-level specification makes at most MaxCalls process_query calls.
MaxCalls == 2

-----------------------------------------------------------------------------
(* Texts *)

IsSpace(c) == c \in {" ", "\n"}

RECURSIVE LStrip(_)
LStrip(t) == IF t # <<>> /\ IsSpace(Head(t)) THEN LStrip(Tail(t)) ELSE t

RECURSIVE RStrip(_)
RStrip(t) ==
    IF t # <<>> /\ IsSpace(t[Len(t)]) THEN RStrip(SubSeq(t, 1, Len(t) - 1)) ELSE t

\* str.strip()
Strip(t) == RStrip(LStrip(t))

\* str.lower() on one lexeme: the words of the model that hold upper-case letters.
LowerLexeme(w) ==
    CASE w = "QUIT" -> "quit"
      [] w = "Exit" -> "exit"
      [] w = "Bye" -> "bye"
      [] w = "N" -> "n"
      [] w = "No" -> "no"
      [] w = "Yes" -> "yes"
      [] w = "Technical" -> "technical"
      [] w = "GENERAL" -> "general"
      [] w = "Billing" -> "billing"
      [] w = "TOOL" -> "tool"
      [] w = "Please" -> "please"
      [] w = "I" -> "i"
      [] OTHER -> w

\* str.lower()
Lower(t) == IF t = <<>> THEN <<>> ELSE [i \in 1..Len(t) |-> LowerLexeme(t[i])]

\* str.startswith(p)
StartsWith(t, p) == Len(t) >= Len(p) /\ SubSeq(t, 1, Len(p)) = p

\* str.split(":"): the segments between the colons, all of them.
RECURSIVE Split(_)
Split(t) ==
    IF \A i \in 1..Len(t) : t[i] # ":"
    THEN <<t>>
    ELSE LET k == CHOOSE i \in 1..Len(t) :
                      t[i] = ":" /\ \A j \in 1..(i - 1) : t[j] # ":"
         IN  <<SubSeq(t, 1, k - 1)>> \o Split(SubSeq(t, k + 1, Len(t)))

-----------------------------------------------------------------------------
(* Inputs *)

\* The lines input() may return.
UserTexts ==
    { <<"quit">>, <<"QUIT">>, <<" ", "Exit", " ">>, <<"Bye">>,
      <<"no">>, <<"N">>, <<"yes">>, <<>>,
      <<"I", " ", "was", " ", "charged", " ", "twice">>,
      <<"quit", " ", "now">> }

\* The texts response.text may hold.
ClassifierTexts ==
    { <<"billing">>, <<"Technical", "\n">>, <<" ", "GENERAL">>,
      <<"refund">>, <<>>, <<"billing", " ", "technical">>,
      <<"TOOL", ":", "process_refund">>,
      <<"TOOL", ":", " ", "restart_service", "\n">>,
      <<"TOOL", ":", "explain_charges", ":", "now">>,
      <<"TOOL", ":", "provide_info">>,
      <<"TOOL", ":", "delete_account">>,
      <<"TOOL", ":">>,
      <<"tool", ":", "check_status">>,
      <<"TOOL", ":", "process_refund", ":", "now">>,
      <<" ", "TOOL", ":", "check_status">>,
      <<" ", "Please", " ", "wait", "\n">> }

\* str(e) of the exceptions generate_content or response.text may raise.
ClassifierErrors == { "503 Service Unavailable", "response blocked" }

ClassifierOutcomes ==
    [ok : {TRUE}, text : ClassifierTexts, err : {""}]
        \cup [ok : {FALSE}, text : {<<>>}, err : ClassifierErrors]

NoOutcome == [ok |-> TRUE, text |-> <<>>, err |-> ""]

NoPrompt == [query |-> <<>>, tools |-> <<>>]

NoResult == [issue_type |-> "None", message |-> <<>>]

-----------------------------------------------------------------------------
(* UserContext and IssueType *)

None == "None"

IssueTypeValues == {"billing", "technical", "general"}

UserContext(name, premium) ==
    [name |-> name, is_premium_user |-> premium, issue_type |-> None,
     previous_queries |-> <<>>]

-----------------------------------------------------------------------------
(* TriageAgent *)

\* ResolveIssueType with the except branch assigning nothing: a failed call
\* leaves the category unset.
ResolveIssueType_NoDefaultOnError(outcome) ==
    IF outcome.ok
    THEN LET issue_type == Lower(Strip(outcome.text))
         IN  IF issue_type \notin {<<v>> : v \in IssueTypeValues}
             THEN "general"
             ELSE issue_type[1]
    ELSE None

\* TriageAgent.process_query, the try block: the category the classifier's
\* answer resolves to.
ResolveIssueType(outcome) ==
    IF outcome.ok
    THEN LET issue_type == Lower(Strip(outcome.text))
         IN  IF issue_type \notin {<<v>> : v \in IssueTypeValues}
             THEN "general"
             ELSE issue_type[1]
    ELSE "general"

\* TriageProcessQuery with the context update moved into the try block: a
\* query whose classifier call fails is not recorded.
TriageProcessQuery_RecordsOnSuccessOnly(ctx, query, outcome) ==
    LET issue_type == ResolveIssueType(outcome)
    IN  [result |->
             [issue_type |-> issue_type,
              message |-> <<"Your query has been categorized as: ", issue_type,
                            ". Transferring you to the ", issue_type,
                            " specialist.">>],
         context |-> IF outcome.ok
                     THEN [ctx EXCEPT !.issue_type = issue_type,
                                      !.previous_queries = Append(@, query)]
                     ELSE ctx,
         invoked |-> <<>>,
         prompt |-> [query |-> query, tools |-> <<>>]]

\* TriageAgent.process_query: the returned dict, the updated context and the
\* prompt sent.
TriageProcessQuery(ctx, query, outcome) ==
    LET issue_type == ResolveIssueType(outcome)
    IN  [result |->
             [issue_type |-> issue_type,
              message |-> <<"Your query has been categorized as: ", issue_type,
                            ". Transferring you to the ", issue_type,
                            " specialist.">>],
         context |-> [ctx EXCEPT !.issue_type = issue_type,
                                 !.previous_queries = Append(@, query)],
         invoked |-> <<>>,
         prompt |-> [query |-> query, tools |-> <<>>]]

-----------------------------------------------------------------------------
(* Parsing of a TOOL: answer, the same three lines in each specialist *)

\* tool_name in self.tools
InRegistry(tools, tool_name) ==
    Len(tool_name) = 1 /\ \E i \in 1..Len(tools) : tools[i] = tool_name[1]

\* IsToolAnswer matching the prefix in any letter case.
IsToolAnswer_AnyCase(response_text) ==
    StartsWith(Lower(response_text), <<"tool", ":">>)

\* response_text.startswith("TOOL:")
IsToolAnswer(response_text) == StartsWith(response_text, <<"TOOL", ":">>)

\* response_text.split(":")[1].strip()
ToolName(response_text) == Strip(Split(response_text)[2])

\* UsedMessage returning the tool's response alone.
UsedMessage_ResponseOnly(tool_name, tool_response) == <<tool_response>>

\* f"Used {tool_name}: {tool_response}"
UsedMessage(tool_name, tool_response) ==
    <<"Used", " ">> \o tool_name \o <<":", " ", tool_response>>

-----------------------------------------------------------------------------
(* BillingAgent *)

\* self.tools, in insertion order
BillingTools == <<"process_refund", "explain_charges", "update_subscription">>

BillingToolResult(name) ==
    CASE name = "process_refund" ->
           "Your refund has been processed successfully. It will reflect in your account within 5-7 business days."
      [] name = "explain_charges" ->
           "Your recent charge of $49.99 is for your monthly subscription. This includes access to all premium features."
      [] name = "update_subscription" ->
           "Your subscription has been updated successfully. Your new plan will take effect in the next billing cycle."

BillingRefusal == <<"I'm sorry, that action is not available for your account.">>

\* BillingApology without str(e).
BillingApology_WithoutDetail(e) ==
    <<"I apologize, I encountered an error processing your billing request: ">>

BillingApology(e) ==
    <<"I apologize, I encountered an error processing your billing request: ", e>>

\* BillingIsToolEnabled without the premium check.
BillingIsToolEnabled_AlwaysEnabled(ctx, tool_name) == TRUE

BillingIsToolEnabled(ctx, tool_name) ==
    IF tool_name = <<"process_refund">> THEN ctx.is_premium_user ELSE TRUE

BillingGetAvailableTools(ctx) ==
    SelectSeq(BillingTools, LAMBDA n : BillingIsToolEnabled(ctx, <<n>>))

BillingProcessQuery(ctx, query, outcome) ==
    LET prompt == [query |-> query, tools |-> BillingGetAvailableTools(ctx)]
        response_text == Strip(outcome.text)
        tool_name == ToolName(response_text)
        Return(message, calls) ==
            [result |-> [issue_type |-> None, message |-> message],
             context |-> ctx, invoked |-> calls, prompt |-> prompt]
    IN  IF ~outcome.ok
        THEN Return(BillingApology(outcome.err), <<>>)
        ELSE IF IsToolAnswer(response_text)
        THEN IF InRegistry(BillingTools, tool_name)
                    /\ BillingIsToolEnabled(ctx, tool_name)
             THEN Return(UsedMessage(tool_name, BillingToolResult(tool_name[1])),
                         <<tool_name[1]>>)
             ELSE Return(BillingRefusal, <<>>)
        ELSE Return(response_text, <<>>)

-----------------------------------------------------------------------------
(* TechnicalAgent *)

TechnicalTools == <<"restart_service", "reset_password", "check_status">>

TechnicalToolResult(name) ==
    CASE name = "restart_service" ->
           "The service has been restarted successfully. Please allow a few minutes for it to become fully operational."
      [] name = "reset_password" ->
           "A password reset link has been sent to your email. Please check your inbox and follow the instructions."
      [] name = "check_status" ->
           "All systems are operational. No outages reported at this time."

TechnicalRefusal ==
    <<"I'm sorry, that action is not available for your account or issue type.">>

TechnicalApology(e) ==
    <<"I apologize, I encountered an error processing your technical request: ", e>>

\* TechnicalIsToolEnabled with the check of the billing agent.
TechnicalIsToolEnabled_PremiumOnly(ctx, tool_name) ==
    IF tool_name = <<"restart_service">> THEN ctx.is_premium_user ELSE TRUE

\* TechnicalIsToolEnabled without the issue-type check.
TechnicalIsToolEnabled_AlwaysEnabled(ctx, tool_name) == TRUE

TechnicalIsToolEnabled(ctx, tool_name) ==
    IF tool_name = <<"restart_service">>
    THEN ctx.issue_type = "technical"
    ELSE TRUE

TechnicalGetAvailableTools(ctx) ==
    SelectSeq(TechnicalTools, LAMBDA n : TechnicalIsToolEnabled(ctx, <<n>>))

TechnicalProcessQuery(ctx, query, outcome) ==
    LET prompt == [query |-> query, tools |-> TechnicalGetAvailableTools(ctx)]
        response_text == Strip(outcome.text)
        tool_name == ToolName(response_text)
        Return(message, calls) ==
            [result |-> [issue_type |-> None, message |-> message],
             context |-> ctx, invoked |-> calls, prompt |-> prompt]
    IN  IF ~outcome.ok
        THEN Return(TechnicalApology(outcome.err), <<>>)
        ELSE IF IsToolAnswer(response_text)
        THEN IF InRegistry(TechnicalTools, tool_name)
                    /\ TechnicalIsToolEnabled(ctx, tool_name)
             THEN Return(UsedMessage(tool_name, TechnicalToolResult(tool_name[1])),
                         <<tool_name[1]>>)
             ELSE Return(TechnicalRefusal, <<>>)
        ELSE Return(response_text, <<>>)

-----------------------------------------------------------------------------
(* GeneralAgent *)

GeneralTools == <<"provide_info", "escalate_issue">>

GeneralToolResult(name) ==
    CASE name = "provide_info" ->
           "Our company provides a range of services designed to meet your needs. For more specific information, please visit our website or contact our support team."
      [] name = "escalate_issue" ->
           "Your issue has been escalated to a human representative. They will contact you within 24 hours."

GeneralRefusal == <<"I'm sorry, that action is not available.">>

GeneralApology(e) ==
    <<"I apologize, I encountered an error processing your request: ", e>>

GeneralGetAvailableTools(ctx) == GeneralTools

GeneralProcessQuery(ctx, query, outcome) ==
    LET prompt == [query |-> query, tools |-> GeneralGetAvailableTools(ctx)]
        response_text == Strip(outcome.text)
        tool_name == ToolName(response_text)
        Return(message, calls) ==
            [result |-> [issue_type |-> None, message |-> message],
             context |-> ctx, invoked |-> calls, prompt |-> prompt]
    IN  IF ~outcome.ok
        THEN Return(GeneralApology(outcome.err), <<>>)
        ELSE IF IsToolAnswer(response_text)
        THEN IF InRegistry(GeneralTools, tool_name)
             THEN Return(UsedMessage(tool_name, GeneralToolResult(tool_name[1])),
                         <<tool_name[1]>>)
             ELSE Return(GeneralRefusal, <<>>)
        ELSE Return(response_text, <<>>)

-----------------------------------------------------------------------------
(* SupportSystem *)

Agents == {"triage", "billing", "technical", "general"}

Specialists == Agents \ {"triage"}

\* SupportAgent.name of self.agents[key]
AgentName(key) ==
    CASE key = "triage" -> "Triage Agent"
      [] key = "billing" -> "Billing Agent"
      [] key = "technical" -> "Technical Agent"
      [] key = "general" -> "General Agent"

\* ProcessQuery with every agent recording the query it handles.
ProcessQuery_RecordsEveryQuery(key, ctx, query, outcome) ==
    LET r == CASE key = "triage" -> TriageProcessQuery(ctx, query, outcome)
               [] key = "billing" -> BillingProcessQuery(ctx, query, outcome)
               [] key = "technical" -> TechnicalProcessQuery(ctx, query, outcome)
               [] key = "general" -> GeneralProcessQuery(ctx, query, outcome)
    IN  IF key = "triage"
        THEN r
        ELSE [r EXCEPT !.context =
                 [ctx EXCEPT !.previous_queries = Append(@, query)]]

\* self.agents[key].process_query(query), the classifier answering with outcome
ProcessQuery(key, ctx, query, outcome) ==
    CASE key = "triage" -> TriageProcessQuery(ctx, query, outcome)
      [] key = "billing" -> BillingProcessQuery(ctx, query, outcome)
      [] key = "technical" -> TechnicalProcessQuery(ctx, query, outcome)
      [] key = "general" -> GeneralProcessQuery(ctx, query, outcome)

\* IsQuitCommand without bye in the list.
IsQuitCommand_WithoutBye(user_input) ==
    Lower(user_input) \in {<<"quit">>, <<"exit">>}

\* IsQuitCommand without the lower().
IsQuitCommand_CaseSensitive(user_input) ==
    user_input \in {<<"quit">>, <<"exit">>, <<"bye">>}

\* user_input.lower() in ['quit', 'exit', 'bye']
IsQuitCommand(user_input) ==
    Lower(user_input) \in {<<"quit">>, <<"exit">>, <<"bye">>}

\* IsEndAnswer accepting only the answers to the yes/no question.
IsEndAnswer_WithoutQuit(continue_session) ==
    continue_session \in {<<"no">>, <<"n">>}

\* IsEndAnswer with the list of the top of the loop added.
IsEndAnswer_WithBye(continue_session) ==
    continue_session \in {<<"no">>, <<"n">>, <<"quit">>, <<"exit">>, <<"bye">>}

\* continue_session in ['no', 'n', 'quit', 'exit']
IsEndAnswer(continue_session) ==
    continue_session \in {<<"no">>, <<"n">>, <<"quit">>, <<"exit">>}

\* HandoffAgent without the final else: a general result selects no agent.
HandoffAgent_NoDefault(issue_type) ==
    IF issue_type = "billing" THEN "billing"
    ELSE IF issue_type = "technical" THEN "technical"
    ELSE "triage"

\* HandoffAgent without the technical branch.
HandoffAgent_TechnicalToGeneral(issue_type) ==
    IF issue_type = "billing" THEN "billing" ELSE "general"

\* the handoff of start(): the agent a triage result selects
HandoffAgent(issue_type) ==
    IF issue_type = "billing" THEN "billing"
    ELSE IF issue_type = "technical" THEN "technical"
    ELSE "general"

Line(who, text) == [who |-> who, text |-> text]

Welcome ==
    << Line("system", <<"Welcome to the Support Agent System!">>),
       Line("system", <<"Type 'quit' to exit at any time.">>),
       Line("system", <<"Please describe your issue and we'll assist you.">>) >>

Goodbye == Line("system", <<"Thank you for using our support system. Goodbye!">>)

AnyOtherQuestions == Line("system", <<"Do you have any other questions? (yes/no)">>)

HelpFurther == Line("system", <<"How can I help you further?">>)

\* the four summary lines printed after the loop
SessionSummary(ctx) ==
    [user |-> ctx.name,
     premium |-> IF ctx.is_premium_user THEN "Yes" ELSE "No",
     issue_type |-> ctx.issue_type,
     queries_handled |-> Len(ctx.previous_queries)]

\* The session state of the controller, read off the position of start() and
\* the current agent.
State ==
    CASE pc = "done" -> "ENDED"
      [] pc = "continue" -> "AWAITING_CONTINUE"
      [] pc = "prompt" /\ current_agent = "triage" -> "AWAITING_TRIAGE"
      [] pc = "prompt" /\ current_agent # "triage" -> "AWAITING_SPECIALIST"

\* A step in which no agent runs.
NoAgentRuns ==
    /\ lastAgent' = "none"
    /\ lastPrompt' = NoPrompt
    /\ lastOutcome' = NoOutcome
    /\ lastResult' = NoResult
    /\ invoked' = <<>>
    /\ UNCHANGED <<context, nCalls, nRouted>>

\* The loop ends: break, then the summary.
EndSession(raw) ==
    /\ lastInput' = raw
    /\ turns' = turns + 1
    /\ prevState' = State
    /\ pc' = "done"
    /\ printed' = <<Goodbye>>
    /\ summary' = Append(summary, SessionSummary(context))
    /\ NoAgentRuns
    /\ UNCHANGED current_agent

Init ==
    /\ pc = "prompt"
    /\ current_agent = "triage"
    /\ \E premium \in BOOLEAN : context = UserContext("Aamna", premium)
    /\ turns = 0
    /\ prevState = "AWAITING_TRIAGE"
    /\ lastInput = <<>>
    /\ lastAgent = "none"
    /\ lastPrompt = NoPrompt
    /\ lastOutcome = NoOutcome
    /\ lastResult = NoResult
    /\ invoked = <<>>
    /\ printed = Welcome
    /\ nCalls = 0
    /\ nRouted = 0
    /\ summary = <<>>

\* Lines 325-329: a quit command at the top of the loop.
QuitTurn ==
    /\ pc = "prompt"
    /\ turns < MaxTurns
    /\ \E raw \in UserTexts :
          /\ IsQuitCommand(Strip(raw))
          /\ EndSession(raw)

\* Lines 325-347: the triage agent handles the line and hands off.
TriageTurn ==
    /\ pc = "prompt"
    /\ current_agent = "triage"
    /\ turns < MaxTurns
    /\ \E raw \in UserTexts, outcome \in ClassifierOutcomes :
          LET user_input == Strip(raw)
              r == ProcessQuery(current_agent, context, user_input, outcome)
          IN  /\ ~IsQuitCommand(user_input)
              /\ lastInput' = raw
              /\ lastAgent' = current_agent
              /\ lastPrompt' = r.prompt
              /\ lastOutcome' = outcome
              /\ lastResult' = r.result
              /\ invoked' = r.invoked
              /\ context' = r.context
              /\ nCalls' = nCalls + 1
              /\ nRouted' = nRouted + 1
              /\ printed' = <<Line(AgentName("triage"), r.result.message)>>
              /\ current_agent' = HandoffAgent(r.result.issue_type)
    /\ turns' = turns + 1
    /\ prevState' = State
    /\ pc' = "prompt"
    /\ UNCHANGED summary

\* SpecialistTurn asking the question without printing the response.
SpecialistTurn_ResponseNotPrinted ==
    /\ pc = "prompt"
    /\ current_agent # "triage"
    /\ turns < MaxTurns
    /\ \E raw \in UserTexts, outcome \in ClassifierOutcomes :
          LET user_input == Strip(raw)
              r == ProcessQuery(current_agent, context, user_input, outcome)
          IN  /\ ~IsQuitCommand(user_input)
              /\ lastInput' = raw
              /\ lastAgent' = current_agent
              /\ lastPrompt' = r.prompt
              /\ lastOutcome' = outcome
              /\ lastResult' = r.result
              /\ invoked' = r.invoked
              /\ context' = r.context
              /\ nCalls' = nCalls + 1
              /\ printed' = <<AnyOtherQuestions>>
    /\ turns' = turns + 1
    /\ prevState' = State
    /\ pc' = "continue"
    /\ UNCHANGED <<current_agent, nRouted, summary>>

\* Lines 325-333, 348-354: the current specialist handles the line.
SpecialistTurn ==
    /\ pc = "prompt"
    /\ current_agent # "triage"
    /\ turns < MaxTurns
    /\ \E raw \in UserTexts, outcome \in ClassifierOutcomes :
          LET user_input == Strip(raw)
              r == ProcessQuery(current_agent, context, user_input, outcome)
          IN  /\ ~IsQuitCommand(user_input)
              /\ lastInput' = raw
              /\ lastAgent' = current_agent
              /\ lastPrompt' = r.prompt
              /\ lastOutcome' = outcome
              /\ lastResult' = r.result
              /\ invoked' = r.invoked
              /\ context' = r.context
              /\ nCalls' = nCalls + 1
              /\ printed' = <<Line(AgentName(current_agent), r.result.message),
                              AnyOtherQuestions>>
    /\ turns' = turns + 1
    /\ prevState' = State
    /\ pc' = "continue"
    /\ UNCHANGED <<current_agent, nRouted, summary>>

\* ContinueEnd leaving start() at once, without the summary.
ContinueEnd_WithoutSummary ==
    /\ pc = "continue"
    /\ turns < MaxTurns
    /\ \E raw \in UserTexts :
          /\ IsEndAnswer(Lower(Strip(raw)))
          /\ lastInput' = raw
    /\ turns' = turns + 1
    /\ prevState' = State
    /\ pc' = "done"
    /\ printed' = <<Goodbye>>
    /\ NoAgentRuns
    /\ UNCHANGED <<current_agent, summary>>

\* Lines 354-358: the answer to "any other questions?" ends the session.
ContinueEnd ==
    /\ pc = "continue"
    /\ turns < MaxTurns
    /\ \E raw \in UserTexts :
          /\ IsEndAnswer(Lower(Strip(raw)))
          /\ EndSession(raw)

\* ContinueMore handing the session back to the triage agent.
ContinueMore_BackToTriage ==
    /\ pc = "continue"
    /\ turns < MaxTurns
    /\ \E raw \in UserTexts :
          /\ ~IsEndAnswer(Lower(Strip(raw)))
          /\ lastInput' = raw
    /\ turns' = turns + 1
    /\ prevState' = State
    /\ pc' = "prompt"
    /\ printed' = <<HelpFurther>>
    /\ NoAgentRuns
    /\ current_agent' = "triage"
    /\ UNCHANGED summary

\* Lines 354-360: any other answer goes back to the top of the loop.
ContinueMore ==
    /\ pc = "continue"
    /\ turns < MaxTurns
    /\ \E raw \in UserTexts :
          /\ ~IsEndAnswer(Lower(Strip(raw)))
          /\ lastInput' = raw
    /\ turns' = turns + 1
    /\ prevState' = State
    /\ pc' = "prompt"
    /\ printed' = <<HelpFurther>>
    /\ NoAgentRuns
    /\ UNCHANGED <<current_agent, summary>>

Next == QuitTurn \/ TriageTurn \/ SpecialistTurn \/ ContinueEnd \/ ContinueMore

Spec == Init /\ [][Next]_vars

-----------------------------------------------------------------------------
(* The agents called directly: any UserContext, any agent, any query.  The *)
(* classes are usable outside SupportSystem: set_context, then             *)
(* process_query.                                                          *)

\* The queries the direct calls pass.
HandlerQueries == { <<"I", " ", "was", " ", "charged", " ", "twice">>, <<"yes">> }

HandlerInit ==
    /\ pc = "prompt"
    /\ current_agent = "triage"
    /\ \E premium \in BOOLEAN, issue_type \in IssueTypeValues \cup {None} :
          context = [UserContext("Guest", premium) EXCEPT !.issue_type = issue_type]
    /\ turns = 0
    /\ prevState = "AWAITING_TRIAGE"
    /\ lastInput = <<>>
    /\ lastAgent = "none"
    /\ lastPrompt = NoPrompt
    /\ lastOutcome = NoOutcome
    /\ lastResult = NoResult
    /\ invoked = <<>>
    /\ printed = <<>>
    /\ nCalls = 0
    /\ nRouted = 0
    /\ summary = <<>>

\* agent.process_query(query) on the agent registered under key
Call(key) ==
    /\ nCalls < MaxCalls
    /\ \E query \in HandlerQueries, outcome \in ClassifierOutcomes :
          LET r == ProcessQuery(key, context, query, outcome)
          IN  /\ lastInput' = query
              /\ lastAgent' = key
              /\ lastPrompt' = r.prompt
              /\ lastOutcome' = outcome
              /\ lastResult' = r.result
              /\ invoked' = r.invoked
              /\ context' = r.context
    /\ nCalls' = nCalls + 1
    /\ nRouted' = IF key = "triage" THEN nRouted + 1 ELSE nRouted
    /\ UNCHANGED <<pc, current_agent, turns, prevState, printed, summary>>

CallTriage == Call("triage")

CallBilling == Call("billing")

CallTechnical == Call("technical")

CallGeneral == Call("general")

HandlerNext == CallTriage \/ CallBilling \/ CallTechnical \/ CallGeneral

HandlerSpec == HandlerInit /\ [][HandlerNext]_vars

-----------------------------------------------------------------------------
(* Properties *)

\* The elements of a sequence.
Range(q) == {q[i] : i \in 1..Len(q)}

\* The three category tokens, as texts.
CategoryTokens == {<<"billing">>, <<"technical">>, <<"general">>}

\* The last step ran the triage agent and the classifier raised or returned
\* the given kind of text.
TriageRan == lastAgent = "triage"

\* After a route that fell back: the router returned general with its handoff
\* message, the context holds general and the query, and the caller went on.
RoutedToGeneral ==
    /\ lastResult.issue_type = "general"
    /\ lastResult.message # <<>>
    /\ context.issue_type = "general"
    /\ context.previous_queries # <<>>
    /\ pc # "done"

\* C1, as stated: whenever the classifier call of a route fails or returns a
\* text that is not literally billing, technical or general, the route
\* resolves to general, sets the context's category to general and returns
\* normally.
C1_LiteralTokenOrGeneral ==
    (TriageRan /\ (~lastOutcome.ok \/ lastOutcome.text \notin CategoryTokens))
        => RoutedToGeneral

\* C1, amended: whenever the classifier call of a route fails or returns a
\* text that, trimmed and lower-cased, is not billing, technical or general,
\* the route resolves to general, sets the context's category to general and
\* returns normally; a text that is a token up to case and surrounding
\* whitespace resolves to that token.
C1_TriageFallsBackToGeneral ==
    TriageRan =>
        IF ~lastOutcome.ok \/ Lower(Strip(lastOutcome.text)) \notin CategoryTokens
        THEN RoutedToGeneral
        ELSE /\ <<lastResult.issue_type>> = Lower(Strip(lastOutcome.text))
             /\ context.issue_type = lastResult.issue_type

\* C1 witness: a route whose classifier call raised ended in general.
C1_Witness ==
    /\ TriageRan
    /\ ~lastOutcome.ok
    /\ context.issue_type = "general"
    /\ State = "AWAITING_SPECIALIST"

\* The refusal string of a specialist.
Refusal(key) ==
    CASE key = "billing" -> BillingRefusal
      [] key = "technical" -> TechnicalRefusal
      [] key = "general" -> GeneralRefusal

\* The registry of a specialist, as the set of its names.
Registry(key) ==
    CASE key = "billing" -> {"process_refund", "explain_charges", "update_subscription"}
      [] key = "technical" -> {"restart_service", "reset_password", "check_status"}
      [] key = "general" -> {"provide_info", "escalate_issue"}

\* Whether the session state leaves an action of a specialist disabled.
GatedOff(key, name) ==
    \/ key = "billing" /\ name = "process_refund" /\ ~context.is_premium_user
    \/ key = "technical" /\ name = "restart_service" /\ context.issue_type # "technical"

\* The last step ran a specialist and the classifier answered TOOL:<name>.
ToolAnswered ==
    /\ lastAgent \in Specialists
    /\ lastOutcome.ok
    /\ StartsWith(Strip(lastOutcome.text), <<"TOOL", ":">>)

\* The <name> of an answer TOOL:<name>: the text after the prefix, trimmed.
AnswerName == Strip(SubSeq(Strip(lastOutcome.text), 3, Len(Strip(lastOutcome.text))))

\* C2: when a specialist's classifier answer is TOOL:<name> and <name> is not
\* in its registry or is gated off in the session state, the specialist
\* returns its refusal string and runs no action.
C2_UnknownOrGatedIsRefused ==
    (ToolAnswered
        /\ (\/ AnswerName \notin {<<n>> : n \in Registry(lastAgent)}
            \/ GatedOff(lastAgent, AnswerName[1])))
        => (lastResult.message = Refusal(lastAgent) /\ invoked = <<>>)

\* The last step ran the billing agent on the answer TOOL:process_refund.
RefundAnswered ==
    /\ lastAgent = "billing"
    /\ lastOutcome.ok
    /\ Strip(lastOutcome.text) = <<"TOOL", ":", "process_refund">>

\* C3: in the billing agent process_refund is among the available tools, and
\* is run on the answer TOOL:process_refund, exactly when the context's
\* premium flag is true; with the flag false the answer yields the refusal
\* string and process_refund never runs.
C3_RefundIffPremium ==
    lastAgent = "billing" =>
        /\ ("process_refund" \in Range(lastPrompt.tools)) <=> context.is_premium_user
        /\ RefundAnswered =>
              IF context.is_premium_user
              THEN /\ invoked = <<"process_refund">>
                   /\ lastResult.message =
                        <<"Used", " ", "process_refund", ":", " ",
                          BillingToolResult("process_refund")>>
              ELSE lastResult.message = BillingRefusal
        /\ ~context.is_premium_user =>
              /\ "process_refund" \notin Range(invoked)
              /\ BillingToolResult("process_refund") \notin Range(lastResult.message)

\* C3 witness: a session without premium whose billing agent was answered
\* TOOL:process_refund and refused.
C3_Witness ==
    /\ RefundAnswered
    /\ ~context.is_premium_user
    /\ lastResult.message = BillingRefusal
    /\ State = "AWAITING_CONTINUE"

\* The last step ran the technical agent on the answer TOOL:restart_service.
RestartAnswered ==
    /\ lastAgent = "technical"
    /\ lastOutcome.ok
    /\ Strip(lastOutcome.text) = <<"TOOL", ":", " ", "restart_service">>

\* C4: in the technical agent restart_service is among the available tools,
\* and is run on the answer TOOL:restart_service, exactly when the context's
\* category is technical; for billing, general and unset it is left out and
\* the answer yields the refusal string.
C4_RestartIffTechnical ==
    lastAgent = "technical" =>
        /\ ("restart_service" \in Range(lastPrompt.tools))
              <=> (context.issue_type = "technical")
        /\ RestartAnswered =>
              IF context.issue_type = "technical"
              THEN /\ invoked = <<"restart_service">>
                   /\ lastResult.message =
                        <<"Used", " ", "restart_service", ":", " ",
                          TechnicalToolResult("restart_service")>>
              ELSE /\ invoked = <<>>
                   /\ lastResult.message = TechnicalRefusal

\* C4 witness: the technical agent, its context's category unset, was
\* answered TOOL:restart_service and refused.
C4_Witness ==
    /\ RestartAnswered
    /\ context.issue_type = None
    /\ lastResult.message = TechnicalRefusal

\* C5: the list of recorded queries holds exactly the queries passed to the
\* triage agent, one entry per route, the last route's query last, and the
\* summary prints that count.
C5_SummaryCountsRoutes ==
    /\ Len(context.previous_queries) = nRouted
    /\ TriageRan => context.previous_queries[nRouted] = Strip(lastInput)
    /\ pc = "done" =>
          /\ Len(summary) = 1
          /\ summary[1].queries_handled = nRouted

\* C5 witness: a session that routed one query (the classifier failing), had
\* the specialist handle a later one, and printed a count of 1.
C5_Witness ==
    /\ pc = "done"
    /\ nRouted = 1
    /\ nCalls >= 2
    /\ summary[1].queries_handled = 1

\* C6: once a specialist is the current agent, it stays the current agent,
\* the triage agent never runs again and the category never changes.
C6_NoReturnToTriage ==
    [][current_agent # "triage" =>
          /\ current_agent' = current_agent
          /\ context'.issue_type = context.issue_type
          /\ lastAgent' # "triage"
          /\ nRouted' = nRouted
          /\ State' # "AWAITING_TRIAGE"]_vars

\* C6 witness: the billing specialist handles a second query, to which the
\* classifier answers with a category name, and is still the current agent.
C6_Witness ==
    /\ current_agent = "billing"
    /\ lastAgent = "billing"
    /\ turns >= 4
    /\ lastOutcome.text = <<"Technical", "\n">>
    /\ context.issue_type = "billing"

\* The line read, trimmed and lower-cased.
Answer == Lower(Strip(lastInput))

\* C7, as stated: from AWAITING_SPECIALIST every line leads to
\* AWAITING_CONTINUE, the bound specialist having handled it.
C7_EveryLineHandled ==
    (prevState = "AWAITING_SPECIALIST" /\ turns > 0)
        => (State = "AWAITING_CONTINUE" /\ lastAgent = current_agent)

\* C7, amended: from AWAITING_SPECIALIST a line that is quit, exit or bye
\* (trimmed, in any letter case) ends the session without running the
\* specialist; every other line runs the bound specialist on the trimmed
\* line, prints its response and leads to AWAITING_CONTINUE.
C7_SpecialistHandlesOrQuits ==
    (prevState = "AWAITING_SPECIALIST" /\ turns > 0) =>
        IF Answer \in {<<"quit">>, <<"exit">>, <<"bye">>}
        THEN State = "ENDED" /\ lastAgent = "none"
        ELSE /\ State = "AWAITING_CONTINUE"
             /\ lastAgent = current_agent
             /\ lastPrompt.query = Strip(lastInput)
             /\ printed[1] = Line(AgentName(current_agent), lastResult.message)

\* C7 witness: a session ended by Bye typed at the specialist's prompt.
C7_Witness ==
    /\ prevState = "AWAITING_SPECIALIST"
    /\ State = "ENDED"
    /\ lastInput = <<"Bye">>

\* C8: from AWAITING_CONTINUE the answers no, n, quit, exit (trimmed, in any
\* letter case) end the session; every other answer prints the offer of more
\* help and leads to AWAITING_SPECIALIST with the same agent and no
\* classifier call.
C8_ContinueOrEnd ==
    [][State = "AWAITING_CONTINUE" =>
          IF Answer' \in {<<"no">>, <<"n">>, <<"quit">>, <<"exit">>}
          THEN State' = "ENDED"
          ELSE /\ State' = "AWAITING_SPECIALIST"
               /\ current_agent' = current_agent
               /\ printed' = <<HelpFurther>>
               /\ lastAgent' = "none"
               /\ nCalls' = nCalls]_vars

\* C8 witness: Bye answered at the continue prompt, and the session goes on.
C8_Witness ==
    /\ prevState = "AWAITING_CONTINUE"
    /\ lastInput = <<"Bye">>
    /\ State = "AWAITING_SPECIALIST"

\* The apology of a specialist for a failure described by e.
Apology(key, e) ==
    CASE key = "billing" ->
           <<"I apologize, I encountered an error processing your billing request: ", e>>
      [] key = "technical" ->
           <<"I apologize, I encountered an error processing your technical request: ", e>>
      [] key = "general" ->
           <<"I apologize, I encountered an error processing your request: ", e>>

\* C9: a step whose classifier call fails makes that one call only and does
\* not end the session: a specialist returns its apology with the failure's
\* description, which is printed like any response, and the session is in
\* AWAITING_CONTINUE; a route leads to AWAITING_SPECIALIST.  A step that ends
\* the session makes no classifier call and is a quit or end answer.
C9_FailureNeverFatal ==
    [][/\ (lastAgent' # "none" /\ ~lastOutcome'.ok) =>
            /\ nCalls' = nCalls + 1
            /\ State' # "ENDED"
            /\ summary' = <<>>
            /\ lastAgent' \in Specialists =>
                  /\ lastResult'.message = Apology(lastAgent', lastOutcome'.err)
                  /\ printed' = <<Line(AgentName(lastAgent'), lastResult'.message),
                                  AnyOtherQuestions>>
                  /\ State' = "AWAITING_CONTINUE"
            /\ lastAgent' = "triage" => State' = "AWAITING_SPECIALIST"
       /\ (State # "ENDED" /\ State' = "ENDED") =>
            /\ lastAgent' = "none"
            /\ nCalls' = nCalls
            /\ Answer' \in {<<"quit">>, <<"exit">>, <<"bye">>, <<"no">>, <<"n">>}]_vars

\* C9 witness: a specialist's classifier call failed and the session waits
\* at the continue prompt.
C9_Witness ==
    /\ lastAgent \in Specialists
    /\ ~lastOutcome.ok
    /\ State = "AWAITING_CONTINUE"

\* C10: a first line that is quit, exit or bye in any letter case ends the
\* session from AWAITING_TRIAGE with no classifier call, no handoff, no
\* recorded query and the category unset, and the summary counts 0.
C10_QuitAtFirstTurn ==
    (turns = 1 /\ Answer \in {<<"quit">>, <<"exit">>, <<"bye">>}) =>
        /\ prevState = "AWAITING_TRIAGE"
        /\ State = "ENDED"
        /\ nCalls = 0
        /\ lastAgent = "none"
        /\ current_agent = "triage"
        /\ context.previous_queries = <<>>
        /\ context.issue_type = None
        /\ Len(summary) = 1
        /\ summary[1].queries_handled = 0
        /\ summary[1].issue_type = None

\* C10 witness: QUIT typed as the first line.
C10_Witness ==
    /\ turns = 1
    /\ lastInput = <<"QUIT">>
    /\ State = "ENDED"

C12_QuitEndsAnywhere ==
    [][(turns' = turns + 1 /\ Answer' = <<"quit">>) =>
          /\ State' = "ENDED"
          /\ lastAgent' = "none"
          /\ nCalls' = nCalls
          /\ context' = context
          /\ current_agent' = current_agent]_vars

\* C12 witness: quit typed at the continue prompt ended the session.
C12_Witness ==
    /\ prevState = "AWAITING_CONTINUE"
    /\ lastInput = <<"quit">>
    /\ State = "ENDED"

\* C13: a step makes at most one classifier call, and a step that makes one
\* prints the response of that call (the handoff message or the specialist's
\* response) before it ends, so before the line of the next call is read.
C13_ResponsePrintedBeforeNextCall ==
    [][/\ nCalls' \in {nCalls, nCalls + 1}
       /\ (nCalls' = nCalls + 1) <=> (lastAgent' # "none")
       /\ lastAgent' # "none" =>
             /\ turns' = turns + 1
             /\ printed' # <<>>
             /\ printed'[1].text = lastResult'.message
             /\ printed'[1].who # "system"
             /\ State' # "ENDED"]_vars

\* C13 witness: a second classifier call, made by a specialist, its response
\* printed.
C13_Witness ==
    /\ nCalls = 2
    /\ lastAgent \in Specialists
    /\ printed[1].text = lastResult.message
    /\ prevState = "AWAITING_SPECIALIST"

\* C14: after a route the current agent is the specialist named by the
\* resolved category, and whenever a specialist is the current agent it is
\* the one named by the context's category.
C14_HandoffFollowsCategory ==
    /\ TriageRan =>
          /\ current_agent \in Specialists
          /\ current_agent = lastResult.issue_type
    /\ current_agent # "triage" => current_agent = context.issue_type

\* C14 witness: a route resolved to technical handed off to the technical
\* agent.
C14_Witness ==
    /\ TriageRan
    /\ lastOutcome.text = <<"Technical", "\n">>
    /\ current_agent = "technical"

\* The canned result of an action of a specialist.
CannedResult(key, name) ==
    CASE key = "billing" -> BillingToolResult(name)
      [] key = "technical" -> TechnicalToolResult(name)
      [] key = "general" -> GeneralToolResult(name)

\* C15: when a specialist's classifier answer is TOOL:<name> and <name> is
\* in its registry and not gated off, that action runs, once and alone, and
\* the response is "Used <name>: " and the action's canned result; for a
\* premium session routed to billing and answered TOOL:process_refund it is
\* "Used process_refund: Your refund has been processed successfully. ...".
C15_EnabledToolRunsOnce ==
    /\ (ToolAnswered
          /\ AnswerName \in {<<n>> : n \in Registry(lastAgent)}
          /\ ~GatedOff(lastAgent, AnswerName[1]))
        => /\ invoked = AnswerName
           /\ lastResult.message =
                <<"Used", " ", AnswerName[1], ":", " ",
                  CannedResult(lastAgent, AnswerName[1])>>
    /\ (RefundAnswered /\ context.is_premium_user /\ context.issue_type = "billing")
        => lastResult.message =
             <<"Used", " ", "process_refund", ":", " ",
               "Your refund has been processed successfully. It will reflect in your account within 5-7 business days.">>

\* C15 witness: a premium session routed to billing, answered
\* TOOL:process_refund, ran the refund.
C15_Witness ==
    /\ RefundAnswered
    /\ context.is_premium_user
    /\ context.issue_type = "billing"
    /\ invoked = <<"process_refund">>
    /\ State = "AWAITING_CONTINUE"

\* C16: the name looked up for an answer starting with TOOL: is the whole
\* text after the first colon, trimmed; so an answer with a further colon
\* after the prefix names no action of a registry: it is refused and no
\* action runs.
C16_NameIsAllAfterFirstColon ==
    (ToolAnswered /\ ":" \in Range(AnswerName))
        => (lastResult.message = Refusal(lastAgent) /\ invoked = <<>>)

\* C17, as stated: a specialist's classifier answer that does not start with
\* TOOL: is returned as it is, surrounding whitespace included, and no action
\* runs.
C17_ReturnedVerbatim ==
    (lastAgent \in Specialists /\ lastOutcome.ok
        /\ ~StartsWith(lastOutcome.text, <<"TOOL", ":">>))
        => (lastResult.message = lastOutcome.text /\ invoked = <<>>)

\* C17, amended: a specialist's classifier answer that, trimmed, does not
\* start with TOOL: is returned trimmed and otherwise unchanged (letter case
\* kept), and no action runs.
C17_ReturnedTrimmed ==
    (lastAgent \in Specialists /\ lastOutcome.ok
        /\ ~StartsWith(Strip(lastOutcome.text), <<"TOOL", ":">>))
        => /\ lastResult.message = Strip(lastOutcome.text)
           /\ invoked = <<>>
           /\ printed[1].text = Strip(lastOutcome.text)

\* C17 witness: an answer with surrounding whitespace came back without it.
C17_Witness ==
    /\ lastAgent \in Specialists
    /\ lastOutcome.text = <<" ", "Please", " ", "wait", "\n">>
    /\ lastResult.message = <<"Please", " ", "wait">>

\* The actions of a specialist the session state leaves enabled.
Enabled(key) == {n \in Registry(key) : ~GatedOff(key, n)}

\* C18: a step that does not run the triage agent (a specialist's call,
\* whatever its outcome, a continue answer, the end) leaves the whole context
\* unchanged, and every call of a specialist is offered the actions its
\* registry and that context enable.
C18_OnlyTriageChangesContext ==
    [][/\ lastAgent' # "triage" => context' = context
       /\ lastAgent' \in Specialists =>
             Range(lastPrompt'.tools) = Enabled(lastAgent')]_vars

\* C18 witness: a specialist ran an action in its second turn, the context
\* still as the route left it.
C18_Witness ==
    /\ lastAgent \in Specialists
    /\ invoked # <<>>
    /\ turns >= 4
    /\ Len(context.previous_queries) = 1
    /\ context.issue_type = current_agent

\* C19: the triage agent is the current agent exactly when the category is
\* unset, and exactly when no query is recorded; otherwise one query is
\* recorded, the first line typed, and the category is billing, technical or
\* general.  So at most one query is routed and a summary counts 0 or 1.
C19_AtMostOneRoute ==
    /\ (current_agent = "triage") <=> (context.issue_type = None)
    /\ (current_agent = "triage") <=> (context.previous_queries = <<>>)
    /\ current_agent # "triage" =>
          /\ Len(context.previous_queries) = 1
          /\ context.issue_type \in {"billing", "technical", "general"}
    /\ TriageRan =>
          /\ turns = 1
          /\ context.previous_queries = <<Strip(lastInput)>>
    /\ nRouted <= 1
    /\ \A i \in 1..Len(summary) : summary[i].queries_handled \in {0, 1}

\* C19 witness: a session that went on for two specialist turns ended with a
\* count of 1.
C19_Witness ==
    /\ pc = "done"
    /\ turns >= 5
    /\ summary[1].queries_handled = 1
    /\ current_agent = "general"

\* C20: whenever the technical agent handles a line of a session the
\* category is technical: restart_service is among its available actions, the
\* answer TOOL:restart_service runs it, and the agent's refusal is returned
\* only for names that are not in its registry.
C20_TechnicalNeverGatedInSession ==
    lastAgent = "technical" =>
        /\ context.issue_type = "technical"
        /\ "restart_service" \in Range(lastPrompt.tools)
        /\ RestartAnswered => invoked = <<"restart_service">>
        /\ lastResult.message = TechnicalRefusal =>
              /\ ToolAnswered
              /\ AnswerName \notin {<<n>> : n \in Registry("technical")}

\* C20 witness: the technical agent of a session refused a name that is not
\* in its registry.
C20_Witness ==
    /\ lastAgent = "technical"
    /\ prevState = "AWAITING_SPECIALIST"
    /\ lastOutcome.text = <<"TOOL", ":", "delete_account">>
    /\ lastResult.message = TechnicalRefusal

====
